---- MODULE Spec2Model ----
(***************************************************************************)
(* Process supervision core of argo-go (DaemonManager).                    *)
(*                                                                         *)
(* The repository carries three copies of the DaemonManager:               *)
(*   Spec   the copy of src/unnamed/part_000 (health checks, timer maps),  *)
(*   SpecB  the first copy of src/unnamed/part_001 (lines 223-407),        *)
(*   SpecC  the second copy of src/unnamed/part_001 (lines 1926-2073).     *)
(* They share the variables below; each has its own actions.               *)
(***************************************************************************)
EXTENDS Integers, Sequences, FiniteSets, TLC

\* validProcesses without "all" (handleRestart)
Names == {"nezha", "xray", "tunnel"}

\* number of child processes ever spawned in a run
MaxPid == 3
\* DAEMON_MAX_RETRIES is read from the environment; Init draws it from 0..MaxRetriesCfg
MaxRetriesCfg == 1
\* number of health-check callbacks in flight at the same time
MaxHC == 1
\* number of events from outside the Supervisor in a run: calls, child exits, expiries of
\* timers whose callback acts (one more when nezha is configured and launched at boot)
MaxEvents == 3
MaxHours == 25
MaxAuthLen == 251
MaxLines == 2
MaxRestarts == 3

Pids == 1..MaxPid
HCs == 1..MaxHC
NoPid == 0

VARIABLES
  proc,          \* OS processes: pid -> [name, st, reaped, auto]; auto: spawned by a
                 \* restart-timer callback, not by a call from outside
  processes,     \* dm.processes: name -> pid of the tracked *exec.Cmd (NoPid: no entry)
  status,        \* dm.status: name -> the ProcessStatus object (named by the pid it was made for)
  rec,           \* the ProcessStatus objects: pid -> [running, retries, exited]
  muW,           \* dm.mu held for writing: NoPid, or the pid whose exit-monitor holds it
  muR,           \* dm.mu held for reading by the GetStatus caller
  mon,           \* exit-monitor goroutines, one per spawned pid
  hc,            \* health-check callbacks in flight
  checkTimers,   \* dm.checkTimers: name -> "absent" | "pending" | "spent"
  restartTimers, \* dm.restartTimers: name -> "absent" | "pending" | "spent"
  strayCheck,    \* pending health-check timers no longer referenced by dm.checkTimers
  strayRestart,  \* pending restart timers not referenced by a map
  cancelled,     \* dm.ctx cancelled
  cleanupPc,     \* position of the Cleanup call
  hr,            \* the restart HTTP handler: remaining names and position
  gs,            \* the GetStatus caller: position, names still to copy, partial copy, result
  hist,          \* values the record being copied has had since its copy began
  last,          \* the operation that produced the current state, with its result (and
                 \* for scheduleRestart the delay of the timer it armed, in milliseconds)
  cfgMaxRetries, \* dm.config.DaemonMaxRetries
  events,        \* events from outside still allowed in this run
  nezhaOn,       \* NezhaServer and NezhaKey are configured, so that nezha is launched
  restarted,     \* names whose last call from outside was a RestartProcess that returned nil
  tunnelInfo,    \* dm.tunnelType and dm.tunnelDomain
  tags,          \* Type and Domain of the ProcessStatus objects: pid -> [type, domain]
  call           \* a call of one of the helper functions: [fn, arg, out]

vars == <<proc, processes, status, rec, muW, muR, mon, hc, checkTimers, restartTimers,
          strayCheck, strayRestart, cancelled, cleanupPc, hr, gs, hist, last, cfgMaxRetries, events, nezhaOn, restarted, tunnelInfo, tags, call>>

----------------------------------------------------------------------------
\* Helpers

NoProc == [name |-> "", st |-> "none", reaped |-> FALSE, auto |-> FALSE]
BlankRec == [running |-> FALSE, retries |-> 0, exited |-> FALSE]
IdleMon == [pc |-> "none", cmd |-> NoPid, err |-> FALSE]
IdleHC == [pc |-> "idle", name |-> "", cmd |-> NoPid, st |-> NoPid]
\* no helper function has been called
NoCall == [fn |-> "", arg |-> 0, out |-> <<>>]
NoInfo == [type |-> "", domain |-> ""]
NoEntry == [present |-> FALSE, running |-> FALSE, retries |-> 0, pid |-> NoPid]
IdleGS == [pc |-> "idle", todo |-> {}, cur |-> "", obj |-> NoPid, running |-> FALSE,
           copied |-> NoEntry, window |-> {}]
IdleHR == [pc |-> "idle", todo |-> <<>>]

Op(o, n, r, p) == [op |-> o, name |-> n, res |-> r, pid |-> p, resp |-> "", delay |-> 0]
Quiet == Op("step", "", "", NoPid)

\* an event from outside: a call, the end of a child, the expiry of a timer whose
\* callback acts
Event == events > 0 /\ events' = events - 1

UsedPids == {p \in Pids : proc[p].st # "none"}
NextPid == Cardinality(UsedPids) + 1

Alive(p) == p # NoPid /\ proc[p].st = "alive"
Dead(p) == p # NoPid /\ proc[p].st \in {"exit0", "exitErr", "killed"}

\* Server.Start launches nezha (when configured), xray and tunnel in this order, each
\* going on when the one before failed; a name already launched can be launched again
BootOrder == <<"nezha", "xray", "tunnel">>
BootIndex(n) == CHOOSE i \in 1..Len(BootOrder) : BootOrder[i] = n
CanStart(n) ==
  /\ n = "nezha" => nezhaOn
  /\ \/ status[n] # NoPid
     \/ \A m \in Names : BootIndex(m) > BootIndex(n) => status[m] = NoPid

\* a write lock that does not wait for readers
CanLockIgnoringReaders == muW = NoPid
\* sync.RWMutex: Lock needs no writer and no reader, RLock needs no writer
CanLock == muW = NoPid /\ ~muR
CanRLock == muW = NoPid

\* cmd.Process.Kill(): SIGKILL ends a live process, and is a no-op on a dead one
Kill(pr, p) ==
  IF p # NoPid /\ pr[p].st = "alive" THEN [pr EXCEPT ![p].st = "killed"] ELSE pr

\* timer.Stop() on the timer a map entry refers to
StopTimer(t) == IF t = "pending" THEN "spent" ELSE t

\* the record being copied by GetStatus is observed after every write
Observe(newRec) ==
  hist' = IF gs.pc = "mid" THEN hist \cup {newRec[gs.obj]} ELSE hist

\* a record that is created without Running set
FreshStatusNotRunning == [running |-> FALSE, retries |-> 0, exited |-> FALSE]
\* &ProcessStatus{Running: true, Retries: 0, LastStart: now, PID: pid, Name: name}
FreshStatus == [running |-> TRUE, retries |-> 0, exited |-> FALSE]

\* startHealthCheck, run as one step by a caller that holds the lock:
\* stop the timer of the map entry, arm a new one, store it
startHealthCheck(ct, n) == [ct EXCEPT ![n] = "pending"]

\* what GetStatus puts in its result for one record
Entry(run, ret, p) == [present |-> TRUE, running |-> run, retries |-> ret, pid |-> p]

\* GetStatus run without interference: name -> entry
StatusView ==
  [n \in Names |-> IF status[n] = NoPid THEN NoEntry
                   ELSE Entry(rec[status[n]].running, rec[status[n]].retries, status[n])]

----------------------------------------------------------------------------
Boot(nezha, budget) ==
  /\ proc = [p \in Pids |-> NoProc]
  /\ processes = [n \in Names |-> NoPid]
  /\ status = [n \in Names |-> NoPid]
  /\ rec = [p \in Pids |-> BlankRec]
  /\ muW = NoPid
  /\ muR = FALSE
  /\ mon = [p \in Pids |-> IdleMon]
  /\ hc = [i \in HCs |-> IdleHC]
  /\ checkTimers = [n \in Names |-> "absent"]
  /\ restartTimers = [n \in Names |-> "absent"]
  /\ strayCheck = [n \in Names |-> 0]
  /\ strayRestart = [n \in Names |-> 0]
  /\ cancelled = FALSE
  /\ cleanupPc = "idle"
  /\ hr = IdleHR
  /\ gs = IdleGS
  /\ hist = {}
  /\ last = Op("init", "", "", NoPid)
  /\ cfgMaxRetries \in 0..MaxRetriesCfg
  /\ events = budget
  /\ restarted = {}
  /\ nezhaOn = nezha
  /\ tunnelInfo = NoInfo
  /\ tags = [p \in Pids |-> NoInfo]

Start(nezha) == Boot(nezha, MaxEvents + (IF nezha THEN 1 ELSE 0)) /\ call = NoCall

\* nezha is not configured
Init == Start(FALSE)
\* nezha is configured
InitNezha == Start(TRUE)
\* nezha is not configured; a run with room for two calls of SetTunnelInfo
InitT == Boot(FALSE, MaxEvents + 1) /\ call = NoCall
\* nezha is not configured; a run long enough for two restart timers to expire
InitLong == Boot(FALSE, MaxEvents + 2) /\ call = NoCall

----------------------------------------------------------------------------
\* The operating system: a live child ends on its own, with status 0 or not
ProcExit(p, code) ==
  /\ Event
  /\ Alive(p)
  /\ proc' = [proc EXCEPT ![p].st = code]
  /\ last' = Quiet
  /\ UNCHANGED <<processes, status, rec, muW, muR, mon, hc, checkTimers, restartTimers,
                 strayCheck, strayRestart, cancelled, cleanupPc, hr, gs, hist, cfgMaxRetries, nezhaOn, restarted, tunnelInfo, tags, call>>

----------------------------------------------------------------------------
\* Type and Domain of the record StartProcess makes: the manager's tunnel tags for
\* "tunnel", the zero values of the literal for any other name
FreshTags(n) == IF n = "tunnel" THEN tunnelInfo ELSE NoInfo

\* part_000: DaemonManager.StartProcess (the whole body runs under dm.mu.Lock)
StartProcess(n, ok) ==
  /\ Event
  /\ CanStart(n)
  /\ CanLock
  /\ ok => NextPid <= MaxPid
  /\ LET killed == Kill(proc, processes[n])
         p == NextPid
     IN IF ~ok
        THEN /\ proc' = killed
             /\ last' = Op("StartProcess", n, "error", NoPid)
             /\ UNCHANGED <<processes, status, rec, mon, checkTimers, hist, tags>>
        ELSE /\ proc' = [killed EXCEPT ![p] = [name |-> n, st |-> "alive", reaped |-> FALSE,
                                               auto |-> FALSE]]
             /\ processes' = [processes EXCEPT ![n] = p]
             /\ status' = [status EXCEPT ![n] = p]
             /\ rec' = [rec EXCEPT ![p] = FreshStatus]
             /\ tags' = [tags EXCEPT ![p] = FreshTags(n)]
             /\ checkTimers' = startHealthCheck(checkTimers, n)
             /\ mon' = [mon EXCEPT ![p] = [pc |-> "start", cmd |-> NoPid, err |-> FALSE]]
             /\ last' = Op("StartProcess", n, "ok", p)
             /\ Observe(rec')
  /\ UNCHANGED <<muW, muR, hc, restartTimers, strayCheck, strayRestart, cancelled,
                 cleanupPc, hr, gs, cfgMaxRetries, nezhaOn, tunnelInfo, call>>
  /\ restarted' = restarted \ {n}

\* monitorProcessExit, first part: RLock, cmd := dm.processes[name], RUnlock
MonitorStart(p) ==
  /\ mon[p].pc = "start"
  /\ CanRLock
  /\ LET cmd == processes[proc[p].name]
     IN mon' = [mon EXCEPT ![p] = IF cmd = NoPid THEN [@ EXCEPT !.pc = "done"]
                                   ELSE [@ EXCEPT !.pc = "wait", !.cmd = cmd]]
  /\ last' = Quiet
  /\ UNCHANGED <<proc, processes, status, rec, muW, muR, hc, checkTimers, restartTimers,
                 strayCheck, strayRestart, cancelled, cleanupPc, hr, gs, hist,
                 cfgMaxRetries, events, nezhaOn, restarted, tunnelInfo, tags, call>>

\* err := cmd.Wait() (the same in the three copies): returns once the child is dead; nil
\* only for the first Wait of a child that ended with status 0 (a second Wait on the
\* same cmd returns an error)
WaitErr(c) == proc[c].reaped \/ proc[c].st # "exit0"

MonitorWait(p) ==
  /\ mon[p].pc = "wait"
  /\ Dead(mon[p].cmd)
  /\ mon' = [mon EXCEPT ![p].pc = "exited", ![p].err = WaitErr(mon[p].cmd)]
  /\ proc' = [proc EXCEPT ![mon[p].cmd].reaped = TRUE]
  /\ last' = Quiet
  /\ UNCHANGED <<processes, status, rec, muW, muR, hc, checkTimers, restartTimers,
                 strayCheck, strayRestart, cancelled, cleanupPc, hr, gs, hist,
                 cfgMaxRetries, events, nezhaOn, restarted, tunnelInfo, tags, call>>

\* monitorProcessExit after Wait: Lock; Running = false; LastExit = now; on an error
\* Retries++ and, while Retries <= DaemonMaxRetries, the call of scheduleRestart,
\* made with the write lock still held
MonitorExit(p) ==
  /\ mon[p].pc = "exited"
  /\ CanLock
  /\ LET n == proc[p].name
         s == status[n]
         r1 == [rec[s] EXCEPT !.running = FALSE, !.exited = TRUE]
         r2 == IF mon[p].err THEN [r1 EXCEPT !.retries = @ + 1] ELSE r1
         sched == mon[p].err /\ r2.retries <= cfgMaxRetries
     IN /\ rec' = IF s = NoPid THEN rec ELSE [rec EXCEPT ![s] = r2]
        /\ IF s # NoPid /\ sched
           THEN /\ mon' = [mon EXCEPT ![p].pc = "schedRead"]
                /\ muW' = p
           ELSE /\ mon' = [mon EXCEPT ![p].pc = "done"]
                /\ muW' = NoPid
        /\ Observe(rec')
  /\ last' = Quiet
  /\ UNCHANGED <<proc, processes, status, muR, hc, checkTimers, restartTimers,
                 strayCheck, strayRestart, cancelled, cleanupPc, hr, gs, cfgMaxRetries, events, nezhaOn, restarted, tunnelInfo, tags, call>>

----------------------------------------------------------------------------
\* scheduleRestart, in the two steps its callers can be interleaved at.  A goroutine
\* g is <<"mon", p>> (the exit-monitor of pid p, which calls it with the write lock
\* held) or <<"hc", i>> (a health-check callback, which calls it without the lock).
Goroutines == ({"mon"} \X Pids) \cup ({"hc"} \X HCs)
PcOf(g) == IF g[1] = "mon" THEN mon[g[2]].pc ELSE hc[g[2]].pc
NameOf(g) == IF g[1] = "mon" THEN proc[g[2]].name ELSE hc[g[2]].name

\* the goroutine g moves to position pc
Goto(g, pc) ==
  IF g[1] = "mon"
  THEN mon' = [mon EXCEPT ![g[2]].pc = pc] /\ UNCHANGED hc
  ELSE hc' = [hc EXCEPT ![g[2]].pc = pc] /\ UNCHANGED mon

\* scheduleRestart returns to its caller: the exit-monitor unlocks and ends,
\* checkProcessHealth goes on to startHealthCheck
ReturnFromSchedule(g) ==
  IF g[1] = "mon"
  THEN mon' = [mon EXCEPT ![g[2]].pc = "done"] /\ muW' = NoPid /\ UNCHANGED hc
  ELSE hc' = [hc EXCEPT ![g[2]].pc = "rearmStop"] /\ UNCHANGED <<mon, muW>>

\* config.DaemonRestartDelay (default, milliseconds) and the cap 60*time.Second
DaemonRestartDelay == 10000
RestartDelayCap == 60000

\* 1 << uint(k) in a 64-bit integer: uint(k) of a negative k is at least 2^63, and a
\* shift by 64 or more gives 0
ShiftOne(k) == IF k < 0 \/ k >= 64 THEN 0 ELSE 2 ^ k

\* if delay > 60*time.Second { delay = 60 * time.Second }
CapDelay(d) == IF d > RestartDelayCap THEN RestartDelayCap ELSE d

\* delay := time.Duration(DaemonRestartDelay) * time.Millisecond *
\*          time.Duration(1<<uint(status.Retries-1)), capped; in milliseconds (for the
\* retries of this model the product in nanoseconds stays below 2^63)
RestartDelay(retries) == CapDelay(DaemonRestartDelay * ShiftOne(retries - 1))

\* the status scheduleRestart has read: a health-check callback keeps the pointer, an
\* exit-monitor holds the write lock, so that the entry cannot have changed
SchedStatus(g) == IF g[1] = "hc" THEN hc[g[2]].st ELSE status[NameOf(g)]

\* if timer, exists := dm.restartTimers[name]; exists { timer.Stop() }
\* dm.mu.RLock(); status := dm.status[name]; dm.mu.RUnlock(); if status == nil { return }
ScheduleRestartRead(g) ==
  /\ PcOf(g) = "schedRead"
  /\ CanRLock
  /\ restartTimers' = [restartTimers EXCEPT ![NameOf(g)] = StopTimer(@)]
  /\ IF status[NameOf(g)] = NoPid
     THEN ReturnFromSchedule(g)
     ELSE /\ IF g[1] = "hc"
             THEN /\ hc' = [hc EXCEPT ![g[2]].pc = "schedArm",
                                      ![g[2]].st = status[NameOf(g)]]
                  /\ UNCHANGED mon
             ELSE Goto(g, "schedArm")
          /\ UNCHANGED muW
  /\ last' = Quiet
  /\ UNCHANGED <<proc, processes, status, rec, muR, checkTimers, strayCheck,
                 strayRestart, cancelled, cleanupPc, hr, gs, hist, cfgMaxRetries, events, nezhaOn, restarted, tunnelInfo, tags, call>>

\* timer := time.AfterFunc(delay, ...); dm.restartTimers[name] = timer
\* (a pending timer that the entry still refers to is overwritten, not stopped)
ScheduleRestartArm(g) ==
  /\ PcOf(g) = "schedArm"
  /\ LET n == NameOf(g)
     IN /\ strayRestart' = [strayRestart EXCEPT ![n] =
                              IF restartTimers[n] = "pending" THEN @ + 1 ELSE @]
        /\ restartTimers' = [restartTimers EXCEPT ![n] = "pending"]
        /\ last' = [Op("scheduleRestart", n, "", SchedStatus(g)) EXCEPT
                      !.delay = RestartDelay(rec[SchedStatus(g)].retries)]
  /\ ReturnFromSchedule(g)
  /\ UNCHANGED <<proc, processes, status, rec, muR, checkTimers, strayCheck,
                 cancelled, cleanupPc, hr, gs, hist, cfgMaxRetries, events, nezhaOn, restarted, tunnelInfo, tags, call>>

\* the restart timer of name expires: its callback only logs
RestartTimerFire(n) ==
  /\ \/ /\ restartTimers[n] = "pending"
        /\ restartTimers' = [restartTimers EXCEPT ![n] = "spent"]
        /\ UNCHANGED strayRestart
     \/ /\ strayRestart[n] > 0
        /\ strayRestart' = [strayRestart EXCEPT ![n] = @ - 1]
        /\ UNCHANGED restartTimers
  /\ last' = Quiet
  /\ UNCHANGED <<proc, processes, status, rec, muW, muR, mon, hc, checkTimers, strayCheck,
                 cancelled, cleanupPc, hr, gs, hist, cfgMaxRetries, events, nezhaOn,
                 restarted, tunnelInfo, tags, call>>

----------------------------------------------------------------------------
\* a health-check timer of name expires and its callback checkProcessHealth(name) starts
CheckTimerFire(n, i) ==
  /\ Event
  /\ hc[i].pc = "idle"
  /\ \/ /\ checkTimers[n] = "pending"
        /\ checkTimers' = [checkTimers EXCEPT ![n] = "spent"]
        /\ UNCHANGED strayCheck
     \/ /\ strayCheck[n] > 0
        /\ strayCheck' = [strayCheck EXCEPT ![n] = @ - 1]
        /\ UNCHANGED checkTimers
  /\ hc' = [hc EXCEPT ![i] = [pc |-> "start", name |-> n, cmd |-> NoPid, st |-> NoPid]]
  /\ last' = Quiet
  /\ UNCHANGED <<proc, processes, status, rec, muW, muR, mon, restartTimers, strayRestart,
                 cancelled, cleanupPc, hr, gs, hist, cfgMaxRetries, nezhaOn, restarted, tunnelInfo, tags, call>>

\* checkProcessHealth: RLock; cmd := dm.processes[name]; status := dm.status[name]; RUnlock
HealthRead(i) ==
  /\ hc[i].pc = "start"
  /\ CanRLock
  /\ hc' = [hc EXCEPT ![i].pc = "probe", ![i].cmd = processes[hc[i].name],
                      ![i].st = status[hc[i].name]]
  /\ last' = Quiet
  /\ UNCHANGED <<proc, processes, status, rec, muW, muR, mon, checkTimers, restartTimers,
                 strayCheck, strayRestart, cancelled, cleanupPc, hr, gs, hist,
                 cfgMaxRetries, events, nezhaOn, restarted, tunnelInfo, tags, call>>

\* cmd.Process.Signal(0) fails once the child has been waited for
SignalOk(c) == ~proc[c].reaped

\* if cmd == nil { if status != nil { status.Running = false }; return }   (no lock held)
\* otherwise the probe cmd.Process.Signal(syscall.Signal(0))
HealthProbe(i) ==
  /\ hc[i].pc = "probe"
  /\ IF hc[i].cmd = NoPid
     THEN /\ rec' = IF hc[i].st = NoPid THEN rec ELSE [rec EXCEPT ![hc[i].st].running = FALSE]
          /\ hc' = [hc EXCEPT ![i] = IdleHC]
     ELSE /\ hc' = [hc EXCEPT ![i].pc = IF SignalOk(hc[i].cmd) THEN "markOk" ELSE "markFail"]
          /\ UNCHANGED rec
  /\ Observe(rec')
  /\ last' = Quiet
  /\ UNCHANGED <<proc, processes, status, muW, muR, mon, checkTimers, restartTimers,
                 strayCheck, strayRestart, cancelled, cleanupPc, hr, gs, cfgMaxRetries, events, nezhaOn, restarted, tunnelInfo, tags, call>>

\* whether a failed check goes on to scheduleRestart
HealthWantsRestart(r) == r.retries <= cfgMaxRetries

\* Lock; status.Running = <probe result>; Unlock; after a failed probe
\* scheduleRestart(name) while status.Retries <= DaemonMaxRetries
HealthMark(i) ==
  /\ hc[i].pc \in {"markOk", "markFail"}
  /\ CanLock
  /\ LET s == hc[i].st
         ok == hc[i].pc = "markOk"
     IN /\ rec' = IF s = NoPid THEN rec ELSE [rec EXCEPT ![s].running = ok]
        /\ hc' = [hc EXCEPT ![i].pc =
                    IF ~ok /\ s # NoPid /\ HealthWantsRestart(rec[s])
                    THEN "schedRead" ELSE "rearmStop"]
  /\ Observe(rec')
  /\ last' = Quiet
  /\ UNCHANGED <<proc, processes, status, muW, muR, mon, checkTimers, restartTimers,
                 strayCheck, strayRestart, cancelled, cleanupPc, hr, gs, cfgMaxRetries, events, nezhaOn, restarted, tunnelInfo, tags, call>>

\* startHealthCheck called by checkProcessHealth (no lock held), first half:
\* if timer, exists := dm.checkTimers[name]; exists { timer.Stop() }
HealthRearmStop(i) ==
  /\ hc[i].pc = "rearmStop"
  /\ checkTimers' = [checkTimers EXCEPT ![hc[i].name] = StopTimer(@)]
  /\ hc' = [hc EXCEPT ![i].pc = "rearmArm"]
  /\ last' = Quiet
  /\ UNCHANGED <<proc, processes, status, rec, muW, muR, mon, restartTimers, strayCheck,
                 strayRestart, cancelled, cleanupPc, hr, gs, hist, cfgMaxRetries, events, nezhaOn, restarted, tunnelInfo, tags, call>>

\* second half: timer := time.AfterFunc(interval, ...); dm.checkTimers[name] = timer
HealthRearmArm(i) ==
  /\ hc[i].pc = "rearmArm"
  /\ LET n == hc[i].name
     IN /\ strayCheck' = [strayCheck EXCEPT ![n] =
                            IF checkTimers[n] = "pending" THEN @ + 1 ELSE @]
        /\ checkTimers' = [checkTimers EXCEPT ![n] = "pending"]
  /\ hc' = [hc EXCEPT ![i] = IdleHC]
  /\ last' = Quiet
  /\ UNCHANGED <<proc, processes, status, rec, muW, muR, mon, restartTimers,
                 strayRestart, cancelled, cleanupPc, hr, gs, hist, cfgMaxRetries, events, nezhaOn, restarted, tunnelInfo, tags, call>>

----------------------------------------------------------------------------
\* DaemonManager.SetTunnelInfo (the whole body runs under dm.mu.Lock)
\* the tunnel types and domains the server passes
TunnelInfos == [type : {"temporary", "fixed"}, domain : {"", "argo.example"}]

\* a call that tags the record of every name
TagEveryRecord(tg, st, info) ==
  [p \in Pids |-> IF \E n \in Names : st[n] = p THEN info ELSE tg[p]]
\* if status, exists := dm.status["tunnel"]; exists { status.Type = ...; status.Domain = ... }
TagTunnelRecord(tg, st, info) ==
  IF st["tunnel"] = NoPid THEN tg ELSE [tg EXCEPT ![st["tunnel"]] = info]

SetTunnelInfo(info) ==
  /\ Event
  /\ CanLock
  /\ tunnelInfo' = info
  /\ tags' = TagTunnelRecord(tags, status, info)
  /\ last' = Op("SetTunnelInfo", "tunnel", "ok", status["tunnel"])
  /\ UNCHANGED <<proc, processes, status, rec, muW, muR, mon, hc, checkTimers, restartTimers,
                 strayCheck, strayRestart, cancelled, cleanupPc, hr, gs, hist,
                 cfgMaxRetries, nezhaOn, restarted, call>>

----------------------------------------------------------------------------
\* DaemonManager.RestartProcess (the whole body runs under dm.mu.Lock)
RestartFound(n) == processes[n] # NoPid

\* the timers of a name after RestartProcess: stopped and deleted from the map
RestartClearsTimer(t) == "absent"

\* status.Running = false; status.Retries = 0
RestartReset(r) == [r EXCEPT !.running = FALSE, !.retries = 0]

RestartProcessBody(n) ==
  IF ~RestartFound(n)
  THEN UNCHANGED <<proc, checkTimers, restartTimers, rec>>
  ELSE /\ proc' = Kill(proc, processes[n])
       /\ checkTimers' = [checkTimers EXCEPT ![n] = RestartClearsTimer(@)]
       /\ restartTimers' = [restartTimers EXCEPT ![n] = RestartClearsTimer(@)]
       /\ rec' = IF status[n] = NoPid THEN rec
                 ELSE [rec EXCEPT ![status[n]] = RestartReset(@)]

\* Server.handleRestart: an unknown name is answered with 400, "all" becomes the list
\* nezha, xray, tunnel
ValidProcesses == Names \cup {"all"}
RestartOrder == <<"nezha", "xray", "tunnel">>

\* the handler's answer once no name is left: {"success": true} whatever
\* RestartProcess returned
Respond(todo) == IF todo = <<>> THEN "success" ELSE ""

\* a handler that gives up on the remaining names when a call fails
HandlerCallsUntilError(body, res, n, rest) ==
  /\ CanLock
  /\ body
  /\ Observe(rec')
  /\ hr' = IF rest = <<>> \/ res # "ok" THEN IdleHR ELSE [pc |-> "run", todo |-> rest]
  /\ last' = [Op("RestartProcess", n, res, processes[n]) EXCEPT !.resp = Respond(rest)]
  /\ restarted' = IF res = "ok" THEN restarted \cup {n} ELSE restarted
  /\ UNCHANGED <<tunnelInfo, tags, call>>
\* one call s.daemon.RestartProcess(n) of the handler, its error dropped; body is the
\* RestartProcess of the copy and res what it returns
HandlerCalls(body, res, n, rest) ==
  /\ CanLock
  /\ body
  /\ Observe(rec')
  /\ hr' = IF rest = <<>> THEN IdleHR ELSE [pc |-> "run", todo |-> rest]
  /\ last' = [Op("RestartProcess", n, res, processes[n]) EXCEPT !.resp = Respond(rest)]
  /\ restarted' = IF res = "ok" THEN restarted \cup {n} ELSE restarted
  /\ UNCHANGED <<tunnelInfo, tags, call>>

\* the names the handler restarts for a valid process name
HandlerTodo(x) == IF x = "all" THEN RestartOrder ELSE <<x>>

\* the answer to a process name that is not valid
HandlerRejects(x) ==
  /\ last' = [Op("handleRestart", x, "", NoPid) EXCEPT !.resp = "400"]
  /\ UNCHANGED <<proc, rec, checkTimers, restartTimers, hr, hist, restarted, tunnelInfo, tags, call>>

\* what RestartProcess returns
RestartResult(n) == IF RestartFound(n) THEN "ok" ELSE "notfound"

HandleRestart(x) ==
  /\ Event
  /\ hr.pc = "idle"
  /\ IF x \notin ValidProcesses
     THEN HandlerRejects(x)
     ELSE LET n == Head(HandlerTodo(x))
          IN HandlerCalls(RestartProcessBody(n), RestartResult(n), n, Tail(HandlerTodo(x)))
  /\ UNCHANGED <<processes, status, muW, muR, mon, hc, strayCheck, strayRestart,
                 cancelled, cleanupPc, gs, cfgMaxRetries, nezhaOn>>

\* the next name of a restart of "all"
HandleRestartNext ==
  /\ hr.pc = "run"
  /\ LET n == Head(hr.todo)
     IN HandlerCalls(RestartProcessBody(n), RestartResult(n), n, Tail(hr.todo))
  /\ UNCHANGED <<processes, status, muW, muR, mon, hc, strayCheck, strayRestart,
                 cancelled, cleanupPc, gs, cfgMaxRetries, events, nezhaOn>>

----------------------------------------------------------------------------
\* DaemonManager.GetStatus: RLock, then every record of dm.status is copied field by
\* field ("running" first, then "retries" ... "pid"), then RUnlock.
\* The copy of the record of name n begins: status.Running is read
BeginCopy(g, n) ==
  [g EXCEPT !.pc = "mid", !.cur = n, !.obj = status[n], !.running = rec[status[n]].running]

GetStatusBegin ==
  /\ Event
  /\ gs.pc = "idle"
  /\ CanRLock
  /\ LET todo == {n \in Names : status[n] # NoPid}
     IN IF todo = {}
        THEN /\ gs' = IdleGS
             /\ hist' = {}
             /\ last' = Op("GetStatus", "", "ok", NoPid)
             /\ UNCHANGED muR
        ELSE \E n \in todo :
             /\ gs' = BeginCopy([IdleGS EXCEPT !.todo = todo], n)
             /\ hist' = {rec[status[n]]}
             /\ last' = Quiet
             /\ muR' = TRUE
  /\ UNCHANGED <<proc, processes, status, rec, muW, mon, hc, checkTimers, restartTimers,
                 strayCheck, strayRestart, cancelled, cleanupPc, hr, cfgMaxRetries, nezhaOn, restarted, tunnelInfo, tags, call>>

\* the other fields of the record are read and its copy is complete; then the next
\* record begins, or the lock is released and the result returned
GetStatusNext ==
  /\ gs.pc = "mid"
  /\ LET entry == Entry(gs.running, rec[gs.obj].retries, gs.obj)
         todo == gs.todo \ {gs.cur}
         done == [gs EXCEPT !.copied = entry, !.window = hist, !.todo = todo]
     IN IF todo = {}
        THEN /\ gs' = [done EXCEPT !.pc = "idle"]
             /\ hist' = {}
             /\ muR' = FALSE
             /\ last' = Op("GetStatus", "", "ok", NoPid)
        ELSE \E n \in todo :
             /\ gs' = BeginCopy(done, n)
             /\ hist' = {rec[status[n]]}
             /\ last' = Quiet
             /\ UNCHANGED muR
  /\ UNCHANGED <<proc, processes, status, rec, muW, mon, hc, checkTimers, restartTimers,
                 strayCheck, strayRestart, cancelled, cleanupPc, hr, cfgMaxRetries, events, nezhaOn, restarted, tunnelInfo, tags, call>>

----------------------------------------------------------------------------
\* DaemonManager.Cleanup takes no lock.  dm.cancel(), then every timer of both maps is
\* stopped and deleted
CleanupTimers ==
  /\ Event
  /\ cleanupPc = "idle"
  /\ cancelled' = TRUE
  /\ checkTimers' = [n \in Names |-> "absent"]
  /\ restartTimers' = [n \in Names |-> "absent"]
  /\ cleanupPc' = "kill"
  /\ last' = Quiet
  /\ UNCHANGED <<proc, processes, status, rec, muW, muR, mon, hc, strayCheck, strayRestart,
                 hr, gs, hist, cfgMaxRetries, nezhaOn, restarted, tunnelInfo, tags, call>>

RECURSIVE KillAll(_, _)
KillAll(pr, ps) ==
  IF ps = {} THEN pr
  ELSE LET p == CHOOSE q \in ps : TRUE IN KillAll(Kill(pr, p), ps \ {p})

\* a Cleanup that deletes the status records and keeps the entries of the process map
CleanupKillDropsRecords ==
  /\ cleanupPc = "kill"
  /\ proc' = KillAll(proc, {processes[n] : n \in Names} \ {NoPid})
  /\ status' = [n \in Names |-> NoPid]
  /\ cleanupPc' = "mark"
  /\ last' = Quiet
  /\ UNCHANGED <<processes, rec, muW, muR, mon, hc, checkTimers, restartTimers, strayCheck,
                 strayRestart, cancelled, hr, gs, hist, cfgMaxRetries, events, nezhaOn,
                 restarted, tunnelInfo, tags, call>>
\* every tracked process is killed and its entry deleted
CleanupKill ==
  /\ cleanupPc = "kill"
  /\ proc' = KillAll(proc, {processes[n] : n \in Names} \ {NoPid})
  /\ processes' = [n \in Names |-> NoPid]
  /\ cleanupPc' = "mark"
  /\ last' = Quiet
  /\ UNCHANGED <<status, rec, muW, muR, mon, hc, checkTimers, restartTimers, strayCheck,
                 strayRestart, cancelled, hr, gs, hist, cfgMaxRetries, events, nezhaOn, restarted, tunnelInfo, tags, call>>

\* every record is marked Running = false; dm.wg.Wait() has nothing to wait for
CleanupMark ==
  /\ cleanupPc = "mark"
  /\ rec' = [p \in Pids |-> IF \E n \in Names : status[n] = p
                            THEN [rec[p] EXCEPT !.running = FALSE] ELSE rec[p]]
  /\ Observe(rec')
  /\ cleanupPc' = "done"
  /\ last' = Op("Cleanup", "", "ok", NoPid)
  /\ UNCHANGED <<proc, processes, status, muW, muR, mon, hc, checkTimers, restartTimers,
                 strayCheck, strayRestart, cancelled, hr, gs, cfgMaxRetries, events, nezhaOn, restarted, tunnelInfo, tags, call>>

----------------------------------------------------------------------------
\* part_001, first copy (lines 223-407).  StartProcess does not look at the process it
\* replaces; the exit-monitor is a closure over the cmd it waits for
LaunchB(n, ok, auto) ==
  IF ~ok
  THEN UNCHANGED <<proc, processes, status, rec, mon>>
  ELSE LET p == NextPid
       IN /\ proc' = [proc EXCEPT ![p] = [name |-> n, st |-> "alive", reaped |-> FALSE,
                                            auto |-> auto]]
          /\ processes' = [processes EXCEPT ![n] = p]
          /\ status' = [status EXCEPT ![n] = p]
          /\ rec' = [rec EXCEPT ![p] = FreshStatus]
          /\ mon' = [mon EXCEPT ![p] = [pc |-> "wait", cmd |-> p, err |-> FALSE]]

LaunchResult(o, n, ok) ==
  Op(o, n, IF ok THEN "ok" ELSE "error", IF ok THEN NextPid ELSE NoPid)

StartProcessB(n, ok) ==
  /\ Event
  /\ CanStart(n)
  /\ CanLock
  /\ ok => NextPid <= MaxPid
  /\ LaunchB(n, ok, FALSE)
  /\ last' = LaunchResult("StartProcess", n, ok)
  /\ UNCHANGED <<muW, muR, hc, checkTimers, restartTimers, strayCheck, strayRestart,
                 cancelled, cleanupPc, hr, gs, hist, cfgMaxRetries, nezhaOn, tunnelInfo, tags, call>>
  /\ restarted' = restarted \ {n}

\* Lock; dm.status[name].Running = false; dm.status[name].LastExit = now; Unlock;
\* then, on an error, scheduleRestart
MonitorExitB(p) ==
  /\ mon[p].pc = "exited"
  /\ CanLock
  /\ rec' = [rec EXCEPT ![status[proc[p].name]] = [@ EXCEPT !.running = FALSE, !.exited = TRUE]]
  /\ mon' = [mon EXCEPT ![p].pc = IF mon[p].err THEN "sched" ELSE "done"]
  /\ last' = Quiet
  /\ UNCHANGED <<proc, processes, status, muW, muR, hc, checkTimers, restartTimers,
                 strayCheck, strayRestart, cancelled, cleanupPc, hr, gs, hist,
                 cfgMaxRetries, events, nezhaOn, restarted, tunnelInfo, tags, call>>

\* scheduleRestart: nothing once status.Retries >= DaemonMaxRetries, else
\* time.AfterFunc(delay, ...), a timer that no map refers to
GivesUpB(r) == r.retries >= cfgMaxRetries

\* delay := time.Duration(DaemonRestartDelay) * time.Millisecond *
\*          time.Duration(1<<uint(status.Retries)), capped; in milliseconds
RestartDelayB(retries) == CapDelay(DaemonRestartDelay * ShiftOne(retries))

ScheduleRestartB(p) ==
  /\ mon[p].pc = "sched"
  /\ CanRLock
  /\ LET n == proc[p].name
     IN IF GivesUpB(rec[status[n]])
        THEN /\ last' = Quiet
             /\ UNCHANGED strayRestart
        ELSE /\ strayRestart' = [strayRestart EXCEPT ![n] = @ + 1]
             /\ last' = [Op("scheduleRestart", n, "", status[n]) EXCEPT
                           !.delay = RestartDelayB(rec[status[n]].retries)]
  /\ mon' = [mon EXCEPT ![p].pc = "done"]
  /\ UNCHANGED <<proc, processes, status, rec, muW, muR, hc, checkTimers, restartTimers,
                 strayCheck, cancelled, cleanupPc, hr, gs, hist, cfgMaxRetries, events,
                 nezhaOn, restarted, tunnelInfo, tags, call>>

\* a restart timer of name expires and its callback starts
RestartTimerFireB(n, i) ==
  /\ Event
  /\ strayRestart[n] > 0
  /\ hc[i].pc = "idle"
  /\ strayRestart' = [strayRestart EXCEPT ![n] = @ - 1]
  /\ hc' = [hc EXCEPT ![i] = [IdleHC EXCEPT !.pc = "inc", !.name = n]]
  /\ last' = Quiet
  /\ UNCHANGED <<proc, processes, status, rec, muW, muR, mon, checkTimers, restartTimers,
                 strayCheck, cancelled, cleanupPc, hr, gs, hist, cfgMaxRetries, nezhaOn, restarted, tunnelInfo, tags, call>>

\* the callback: Lock; dm.status[name].Retries++; Unlock
RestartCallbackB(i) ==
  /\ hc[i].pc = "inc"
  /\ CanLock
  /\ rec' = [rec EXCEPT ![status[hc[i].name]].retries = @ + 1]
  /\ hc' = [hc EXCEPT ![i].pc = "relaunch"]
  /\ last' = Quiet
  /\ UNCHANGED <<proc, processes, status, muW, muR, mon, checkTimers, restartTimers,
                 strayCheck, strayRestart, cancelled, cleanupPc, hr, gs, hist,
                 cfgMaxRetries, events, nezhaOn, restarted, tunnelInfo, tags, call>>

\* the callback: dm.StartProcess(name, command, args, options...), its error dropped
RelaunchB(i, ok) ==
  /\ hc[i].pc = "relaunch"
  /\ CanLock
  /\ ok => NextPid <= MaxPid
  /\ LaunchB(hc[i].name, ok, TRUE)
  /\ hc' = [hc EXCEPT ![i] = IdleHC]
  /\ last' = LaunchResult("Relaunch", hc[i].name, ok)
  /\ UNCHANGED <<muW, muR, checkTimers, restartTimers, strayCheck, strayRestart,
                 cancelled, cleanupPc, hr, gs, hist, cfgMaxRetries, events, nezhaOn, restarted, tunnelInfo, tags, call>>

\* RestartProcess: kill the tracked process if there is one, reset the record if there
\* is one, return nil
RestartProcessBodyB(n) ==
  /\ proc' = Kill(proc, processes[n])
  /\ rec' = IF status[n] = NoPid THEN rec ELSE [rec EXCEPT ![status[n]] = RestartReset(@)]
  /\ UNCHANGED <<checkTimers, restartTimers>>

RestartResultB(n) == "ok"

HandleRestartB(x) ==
  /\ Event
  /\ hr.pc = "idle"
  /\ IF x \notin ValidProcesses
     THEN HandlerRejects(x)
     ELSE LET n == Head(HandlerTodo(x))
          IN HandlerCalls(RestartProcessBodyB(n), RestartResultB(n), n, Tail(HandlerTodo(x)))
  /\ UNCHANGED <<processes, status, muW, muR, mon, hc, strayCheck, strayRestart,
                 cancelled, cleanupPc, gs, cfgMaxRetries, nezhaOn>>

HandleRestartNextB ==
  /\ hr.pc = "run"
  /\ LET n == Head(hr.todo)
     IN HandlerCalls(RestartProcessBodyB(n), RestartResultB(n), n, Tail(hr.todo))
  /\ UNCHANGED <<processes, status, muW, muR, mon, hc, strayCheck, strayRestart,
                 cancelled, cleanupPc, gs, cfgMaxRetries, events, nezhaOn>>

\* Cleanup: dm.cancel(); Lock; kill and delete every tracked process; every record
\* Running = false; Unlock
CleanupB ==
  /\ Event
  /\ cleanupPc = "idle"
  /\ CanLock
  /\ cancelled' = TRUE
  /\ proc' = KillAll(proc, {processes[n] : n \in Names} \ {NoPid})
  /\ processes' = [n \in Names |-> NoPid]
  /\ rec' = [p \in Pids |-> IF \E n \in Names : status[n] = p
                            THEN [rec[p] EXCEPT !.running = FALSE] ELSE rec[p]]
  /\ cleanupPc' = "done"
  /\ last' = Op("Cleanup", "", "ok", NoPid)
  /\ UNCHANGED <<status, muW, muR, mon, hc, checkTimers, restartTimers, strayCheck,
                 strayRestart, hr, gs, hist, cfgMaxRetries, nezhaOn, restarted, tunnelInfo, tags, call>>

----------------------------------------------------------------------------
\* part_001, second copy (lines 1926-2073).  No health check and no timer map
StartProcessC(n, ok) ==
  /\ Event
  /\ CanStart(n)
  /\ CanLock
  /\ ok => NextPid <= MaxPid
  /\ LET killed == Kill(proc, processes[n])
         p == NextPid
     IN IF ~ok
        THEN /\ proc' = killed
             /\ UNCHANGED <<processes, status, rec, mon>>
        ELSE /\ proc' = [killed EXCEPT ![p] = [name |-> n, st |-> "alive", reaped |-> FALSE,
                                               auto |-> FALSE]]
             /\ processes' = [processes EXCEPT ![n] = p]
             /\ status' = [status EXCEPT ![n] = p]
             /\ rec' = [rec EXCEPT ![p] = FreshStatus]
             /\ mon' = [mon EXCEPT ![p] = [pc |-> "start", cmd |-> NoPid, err |-> FALSE]]
  /\ last' = LaunchResult("StartProcess", n, ok)
  /\ UNCHANGED <<muW, muR, hc, checkTimers, restartTimers, strayCheck, strayRestart,
                 cancelled, cleanupPc, hr, gs, hist, cfgMaxRetries, nezhaOn, tunnelInfo, tags, call>>
  /\ restarted' = restarted \ {n}

\* monitorProcessExit: cmd := dm.processes[name], read without the lock
MonitorStartC(p) ==
  /\ mon[p].pc = "start"
  /\ mon' = [mon EXCEPT ![p].pc = "wait", ![p].cmd = processes[proc[p].name]]
  /\ last' = Quiet
  /\ UNCHANGED <<proc, processes, status, rec, muW, muR, hc, checkTimers, restartTimers,
                 strayCheck, strayRestart, cancelled, cleanupPc, hr, gs, hist,
                 cfgMaxRetries, events, nezhaOn, restarted, tunnelInfo, tags, call>>

\* Lock; Running = false; LastExit = now; on an error Retries++ and, while
\* Retries <= DaemonMaxRetries, scheduleRestart: time.AfterFunc(delay, ...) with a
\* callback that only logs, a timer that no map refers to; Unlock
MonitorExitC(p) ==
  /\ mon[p].pc = "exited"
  /\ CanLock
  /\ LET n == proc[p].name
         s == status[n]
         r1 == [rec[s] EXCEPT !.running = FALSE, !.exited = TRUE]
         r2 == IF mon[p].err THEN [r1 EXCEPT !.retries = @ + 1] ELSE r1
     IN /\ rec' = [rec EXCEPT ![s] = r2]
        /\ strayRestart' = [strayRestart EXCEPT ![n] =
                              IF mon[p].err /\ r2.retries <= cfgMaxRetries THEN @ + 1 ELSE @]
  /\ mon' = [mon EXCEPT ![p].pc = "done"]
  /\ last' = Quiet
  /\ UNCHANGED <<proc, processes, status, muW, muR, hc, checkTimers, restartTimers,
                 strayCheck, cancelled, cleanupPc, hr, gs, hist, cfgMaxRetries, events,
                 nezhaOn, restarted, tunnelInfo, tags, call>>

\* a restart timer of name expires: its callback only logs
RestartTimerFireC(n) ==
  /\ strayRestart[n] > 0
  /\ strayRestart' = [strayRestart EXCEPT ![n] = @ - 1]
  /\ last' = Quiet
  /\ UNCHANGED <<proc, processes, status, rec, muW, muR, mon, hc, checkTimers,
                 restartTimers, strayCheck, cancelled, cleanupPc, hr, gs, hist,
                 cfgMaxRetries, events, nezhaOn, restarted, tunnelInfo, tags, call>>

\* RestartProcess: an error when the name has no entry in dm.processes; else kill and
\* Running = false, Retries = 0
RestartProcessBodyC(n) ==
  IF ~RestartFound(n)
  THEN UNCHANGED <<proc, checkTimers, restartTimers, rec>>
  ELSE /\ proc' = Kill(proc, processes[n])
       /\ rec' = IF status[n] = NoPid THEN rec
                 ELSE [rec EXCEPT ![status[n]] = RestartReset(@)]
       /\ UNCHANGED <<checkTimers, restartTimers>>

HandleRestartC(x) ==
  /\ Event
  /\ hr.pc = "idle"
  /\ IF x \notin ValidProcesses
     THEN HandlerRejects(x)
     ELSE LET n == Head(HandlerTodo(x))
          IN HandlerCalls(RestartProcessBodyC(n), RestartResult(n), n, Tail(HandlerTodo(x)))
  /\ UNCHANGED <<processes, status, muW, muR, mon, hc, strayCheck, strayRestart,
                 cancelled, cleanupPc, gs, cfgMaxRetries, nezhaOn>>

HandleRestartNextC ==
  /\ hr.pc = "run"
  /\ LET n == Head(hr.todo)
     IN HandlerCalls(RestartProcessBodyC(n), RestartResult(n), n, Tail(hr.todo))
  /\ UNCHANGED <<processes, status, muW, muR, mon, hc, strayCheck, strayRestart,
                 cancelled, cleanupPc, gs, cfgMaxRetries, events, nezhaOn>>

\* Cleanup takes no lock: every tracked process is killed, then dm.cancel()
CleanupC ==
  /\ Event
  /\ cleanupPc = "idle"
  /\ proc' = KillAll(proc, {processes[n] : n \in Names} \ {NoPid})
  /\ cancelled' = TRUE
  /\ cleanupPc' = "done"
  /\ last' = Op("Cleanup", "", "ok", NoPid)
  /\ UNCHANGED <<processes, status, rec, muW, muR, mon, hc, checkTimers, restartTimers,
                 strayCheck, strayRestart, hr, gs, hist, cfgMaxRetries, nezhaOn, restarted, tunnelInfo, tags, call>>

----------------------------------------------------------------------------
Next ==
  \/ \E n \in Names, ok \in BOOLEAN : StartProcess(n, ok)
  \/ \E p \in Pids, code \in {"exit0", "exitErr"} : ProcExit(p, code)
  \/ \E p \in Pids : MonitorStart(p)
  \/ \E p \in Pids : MonitorWait(p)
  \/ \E p \in Pids : MonitorExit(p)
  \/ \E g \in Goroutines : ScheduleRestartRead(g)
  \/ \E g \in Goroutines : ScheduleRestartArm(g)
  \/ \E n \in Names : RestartTimerFire(n)
  \/ \E n \in Names, i \in HCs : CheckTimerFire(n, i)
  \/ \E i \in HCs : HealthRead(i)
  \/ \E i \in HCs : HealthProbe(i)
  \/ \E i \in HCs : HealthMark(i)
  \/ \E i \in HCs : HealthRearmStop(i)
  \/ \E i \in HCs : HealthRearmArm(i)
  \/ \E x \in ValidProcesses \cup {"other"} : HandleRestart(x)
  \/ HandleRestartNext
  \/ GetStatusBegin
  \/ GetStatusNext
  \/ CleanupTimers
  \/ CleanupKill
  \/ CleanupMark

NextB ==
  \/ \E n \in Names, ok \in BOOLEAN : StartProcessB(n, ok)
  \/ \E p \in Pids, code \in {"exit0", "exitErr"} : ProcExit(p, code)
  \/ \E p \in Pids : MonitorWait(p)
  \/ \E p \in Pids : MonitorExitB(p)
  \/ \E p \in Pids : ScheduleRestartB(p)
  \/ \E n \in Names, i \in HCs : RestartTimerFireB(n, i)
  \/ \E i \in HCs : RestartCallbackB(i)
  \/ \E i \in HCs, ok \in BOOLEAN : RelaunchB(i, ok)
  \/ \E x \in ValidProcesses \cup {"other"} : HandleRestartB(x)
  \/ HandleRestartNextB
  \/ CleanupB

NextC ==
  \/ \E n \in Names, ok \in BOOLEAN : StartProcessC(n, ok)
  \/ \E p \in Pids, code \in {"exit0", "exitErr"} : ProcExit(p, code)
  \/ \E p \in Pids : MonitorStartC(p)
  \/ \E p \in Pids : MonitorWait(p)
  \/ \E p \in Pids : MonitorExitC(p)
  \/ \E n \in Names : RestartTimerFireC(n)
  \/ \E x \in ValidProcesses \cup {"other"} : HandleRestartC(x)
  \/ HandleRestartNextC
  \/ CleanupC

----------------------------------------------------------------------------
\* Helper functions of the servers. A time.Duration is held in whole seconds and a
\* rendered text as the sequence of its <<number, unit>> parts, where "d", "h", "m"
\* and "s" stand for the units the code prints after %d
Hours(d) == d \div 3600
Minutes(d) == d \div 60
Seconds(d) == d

\* part_000: formatDuration
formatDuration(d) ==
  LET days == Hours(d) \div 24
      hours == Hours(d) % 24
      minutes == Minutes(d) % 60
      seconds == Seconds(d) % 60
  IN IF days > 0 THEN << <<days, "d">>, <<hours, "h">>, <<minutes, "m">> >>
     ELSE IF hours > 0 THEN << <<hours, "h">>, <<minutes, "m">> >>
     ELSE IF minutes > 0 THEN << <<minutes, "m">>, <<seconds, "s">> >>
     ELSE << <<seconds, "s">> >>

\* part_001: formatDuration
formatDurationB(d) ==
  LET hours == Hours(d)
      minutes == Minutes(d) % 60
      seconds == Seconds(d) % 60
  IN IF hours > 0 THEN << <<hours, "h">>, <<minutes, "m">>, <<seconds, "s">> >>
     ELSE IF minutes > 0 THEN << <<minutes, "m">>, <<seconds, "s">> >>
     ELSE << <<seconds, "s">> >>

\* the state of the manager, which a helper function does not touch
manager == <<proc, processes, status, rec, muW, muR, mon, hc, checkTimers, restartTimers,
             strayCheck, strayRestart, cancelled, cleanupPc, hr, gs, hist, last,
             cfgMaxRetries, events, nezhaOn, restarted, tunnelInfo, tags>>

\* the durations given to formatDuration: every whole number of seconds up to
\* MaxHours hours and 59 minutes 59 seconds
Durations == 0 .. (MaxHours * 3600 + 3599)

InitDur == Boot(FALSE, 0) /\ call \in [fn : {""}, arg : Durations, out : {<<>>}]

FormatDuration ==
  /\ call.fn = ""
  /\ call' = [call EXCEPT !.fn = "formatDuration", !.out = formatDuration(call.arg)]
  /\ UNCHANGED manager

FormatDurationB ==
  /\ call.fn = ""
  /\ call' = [call EXCEPT !.fn = "formatDuration", !.out = formatDurationB(call.arg)]
  /\ UNCHANGED manager

NextDur ==
  \/ FormatDuration
  \/ FormatDurationB

SpecDur == InitDur /\ [][NextDur]_vars

\* An ArgoAuth value, as far as analyzeTunnelType looks at it: its length, whether all
\* its characters are in [A-Z0-9a-z=], and whether it contains "TunnelSecret" (twelve
\* characters, all of that class)
ArgoAuths ==
  {a \in [len : 0 .. MaxAuthLen, tokenChars : BOOLEAN, secret : BOOLEAN] :
     /\ a.len = 0 => (a.tokenChars /\ ~a.secret)
     /\ a.secret => a.len >= 12}

\* tokenPattern := `^[A-Z0-9a-z=]{120,250}$`
TokenPatternMin == 120
TokenPatternMax == 250
MatchesTokenPattern(a) ==
  a.tokenChars /\ TokenPatternMin <= a.len /\ a.len <= TokenPatternMax

\* Server.analyzeTunnelType (the same text in part_000 and in both copies of part_001)
analyzeTunnelType(a) ==
  IF a.len = 0 THEN "temporary"
  ELSE IF a.secret THEN "fixed"
  ELSE IF MatchesTokenPattern(a) THEN "token"
  ELSE "temporary"

InitAuth == Boot(FALSE, 0) /\ call \in [fn : {""}, arg : ArgoAuths, out : {<<>>}]

AnalyzeTunnelType ==
  /\ call.fn = ""
  /\ call' = [call EXCEPT !.fn = "analyzeTunnelType", !.out = analyzeTunnelType(call.arg)]
  /\ UNCHANGED manager

SpecAuth == InitAuth /\ [][AnalyzeTunnelType]_vars

----------------------------------------------------------------------------
\* main.go: startMainProcess from extractDomains on.  The variable call holds the
\* position of the goroutine (fn), what it reads (arg: whether ArgoAuth and ArgoDomain
\* are both set, and the boot log) and the number of tunnel restarts so far (out,
\* counted up to MaxRestarts).  A boot log is unreadable (os.ReadFile fails) or has
\* lines; a line is "other", "bare" (contains trycloudflare.com but neither https://
\* nor http://) or "url" (contains trycloudflare.com and a URL scheme).
LineKinds == {"other", "bare", "url"}
NoBootLog == [readable |-> FALSE, lines |-> <<>>]
BootLogs ==
  {NoBootLog} \cup
  {[readable |-> TRUE, lines |-> l] : l \in UNION {[1..k -> LineKinds] : k \in 0..MaxLines}}

\* the loop of extractDomains over the lines: a domain is found in the first line that
\* contains trycloudflare.com and a URL scheme
DomainFound(log) == log.readable /\ \E i \in DOMAIN log.lines : log.lines[i] = "url"

InitMain ==
  /\ Boot(FALSE, 0)
  /\ call \in [fn : {"extractDomains"}, arg : [fixed : BOOLEAN, log : BootLogs], out : {0}]

\* extractDomains: the fixed domain, or the domain of the boot log, goes to
\* generateLinks and the call returns; otherwise restartCloudflared is called
ExtractDomains ==
  /\ call.fn = "extractDomains"
  /\ call' = [call EXCEPT !.fn = IF call.arg.fixed \/ DomainFound(call.arg.log)
                                 THEN "uploadNodes" ELSE "restartCloudflared"]
  /\ UNCHANGED manager

\* restartCloudflared: pkill, remove the log, start cloudflared again; when cmd.Start
\* fails it returns, otherwise the new process writes a log and extractDomains is
\* called again
RestartCloudflared(ok, log) ==
  /\ call.fn = "restartCloudflared"
  /\ call' = IF ok
             THEN [fn |-> "extractDomains", arg |-> [call.arg EXCEPT !.log = log],
                   out |-> IF call.out < MaxRestarts THEN call.out + 1 ELSE call.out]
             ELSE [call EXCEPT !.fn = "uploadNodes", !.arg.log = NoBootLog]
  /\ UNCHANGED manager

NextMain ==
  \/ ExtractDomains
  \/ \E ok \in BOOLEAN, log \in BootLogs : RestartCloudflared(ok, log)

SpecMain == InitMain /\ [][NextMain]_vars
\* the goroutine of startMainProcess keeps running
SpecMainFair == SpecMain /\ WF_vars(NextMain)

\* part_000: SetTunnelInfo with the operations that write the tags it writes or hold
\* the lock it takes
NextT ==
  \/ \E n \in Names, ok \in BOOLEAN : StartProcess(n, ok)
  \/ \E info \in TunnelInfos : SetTunnelInfo(info)
  \/ \E p \in Pids, code \in {"exit0", "exitErr"} : ProcExit(p, code)
  \/ \E p \in Pids : MonitorStart(p)
  \/ \E p \in Pids : MonitorWait(p)
  \/ \E p \in Pids : MonitorExit(p)
  \/ \E x \in ValidProcesses \cup {"other"} : HandleRestart(x)
  \/ HandleRestartNext
  \/ GetStatusBegin
  \/ GetStatusNext

\* part_001, second copy: SetTunnelInfo (the same text as in part_000) with the
\* operations that make and handle the records
NextTC ==
  \/ \E n \in Names, ok \in BOOLEAN : StartProcessC(n, ok)
  \/ \E info \in TunnelInfos : SetTunnelInfo(info)
  \/ \E p \in Pids, code \in {"exit0", "exitErr"} : ProcExit(p, code)
  \/ \E p \in Pids : MonitorStartC(p)
  \/ \E p \in Pids : MonitorWait(p)
  \/ \E p \in Pids : MonitorExitC(p)
  \/ \E n \in Names : RestartTimerFireC(n)

\* part_000, nezha not configured / configured
Spec == Init /\ [][Next]_vars
SpecNezha == InitNezha /\ [][Next]_vars
\* part_000 with SetTunnelInfo
SpecT == InitT /\ [][NextT]_vars
\* part_001, second copy, with SetTunnelInfo
SpecTC == InitT /\ [][NextTC]_vars
\* part_001, first copy
SpecB == Init /\ [][NextB]_vars
\* part_001, first copy, longer runs
SpecBLong == InitLong /\ [][NextB]_vars
\* part_001, second copy
SpecC == Init /\ [][NextC]_vars

\* the steps of the second copy that the Go scheduler and the timers take on their own
InternalC ==
  \/ \E p \in Pids : MonitorStartC(p)
  \/ \E p \in Pids : MonitorWait(p)
  \/ \E p \in Pids : MonitorExitC(p)
  \/ \E n \in Names : RestartTimerFireC(n)

\* part_001, second copy: goroutines and timers that can run do run
SpecCFair == SpecC /\ WF_vars(InternalC)
----------------------------------------------------------------------------
\* Properties

\* C1: in the state StartProcess(name) leaves when it returns nil, the record of name
\* has running = true, retries = 0 and the pid of the process this call spawned, that
\* process is the tracked one, and GetStatus reports the same three values
C1_StartProcessRecord ==
  (last.op = "StartProcess" /\ last.res = "ok") =>
    /\ Alive(last.pid)
    /\ processes[last.name] = last.pid
    /\ status[last.name] = last.pid
    /\ rec[last.pid].running
    /\ rec[last.pid].retries = 0
    /\ StatusView[last.name] = Entry(TRUE, 0, last.pid)

\* StartProcess has returned nil for a name whose earlier record had counted a retry
C1_Witness ==
  /\ last.op = "StartProcess"
  /\ last.res = "ok"
  /\ \E q \in Pids : q < last.pid /\ proc[q].name = last.name /\ rec[q].retries > 0

\* the live OS processes that were spawned for name
LiveOf(n) == {p \in Pids : proc[p].name = n /\ proc[p].st = "alive"}

\* C2: in every reachable state at most one live OS process exists for each name
C2_OneLiveProcessPerName == \A n \in Names : Cardinality(LiveOf(n)) <= 1

\* the exit-monitor of pid p holds dm.mu for writing and waits for dm.mu.RLock()
SelfDeadlocked(p) == muW = p /\ mon[p].pc = "schedRead"

\* C3: no goroutine holds the Supervisor lock forever (so every GetStatus returns):
\* no goroutine waits for the lock it holds itself
C3_LockAlwaysReleased == \A p \in Pids : ~SelfDeadlocked(p)

\* C4: every record GetStatus has copied equals the record as it was at one instant
\* between the beginning and the end of its copy
C4_SnapshotOfOneInstant ==
  gs.copied.present =>
    gs.copied \in {Entry(h.running, h.retries, gs.copied.pid) : h \in gs.window}

\* GetStatus has copied a record that was written while it was being copied
C4_Witness == gs.copied.present /\ Cardinality(gs.window) >= 2

\* C5: a call RestartProcess(name) for a name that was never started returns the
\* not-found error and leaves the status map, the process map, the records, the OS
\* processes and the timers as they were
C5_RestartOfUnknownName ==
  [][\A n \in Names :
       (last'.op = "RestartProcess" /\ last'.name = n /\ status[n] = NoPid)
         => /\ last'.res = "notfound"
            /\ UNCHANGED <<status, processes, rec, proc, checkTimers, restartTimers,
                           strayCheck, strayRestart>>]_vars

\* a health-check timer or a restart timer of name is armed
ArmedTimers(n) ==
  \/ checkTimers[n] = "pending"
  \/ restartTimers[n] = "pending"
  \/ strayCheck[n] > 0
  \/ strayRestart[n] > 0

\* C6: in the state RestartProcess(name) leaves when it returns nil, the record of name
\* has running = false and retries = 0, the process that was tracked is not alive, and
\* neither a health-check timer nor a restart timer of name is armed
C6_RestartProcessPostState ==
  (last.op = "RestartProcess" /\ last.res = "ok") =>
    /\ ~Alive(last.pid)
    /\ status[last.name] # NoPid =>
         ~rec[status[last.name]].running /\ rec[status[last.name]].retries = 0
    /\ ~ArmedTimers(last.name)

\* C7: from a RestartProcess(name) that returned nil until the next StartProcess(name)
\* called from outside, no step spawns a process for name and the record of name is
\* not running
C7_NoLaunchAfterRestart ==
  [][\A n \in restarted' :
       /\ status'[n] # NoPid => ~rec'[status'[n]].running
       /\ \A p \in Pids : proc'[p].name = n => proc[p].name = n]_vars

\* name is tracked and its process has stopped
Stopped(n) == processes[n] # NoPid /\ Dead(processes[n])

\* C8: RestartProcess(name) on a tracked name whose process has stopped returns (nil,
\* with retries = 0) whatever the retry count was: while such a name has counted a
\* retry, the lock RestartProcess needs is not held for ever
C8_RestartOfStoppedReturns ==
  \A n \in Names :
    (Stopped(n) /\ status[n] # NoPid /\ rec[status[n]].retries > 0)
      => \A p \in Pids : ~SelfDeadlocked(p)

\* the exit-monitor of pid p has recorded the exit
MonitorRan(p) == mon[p].pc \in {"done", "schedRead", "schedArm"}

\* C9: once nezha, xray and tunnel have all been started and then restarted, every
\* name whose exit-monitor has run has running = false, retries = 0 and no timer armed
C9_RestartAllSettles ==
  restarted = Names =>
    \A n \in Names :
      MonitorRan(status[n]) =>
        /\ ~rec[status[n]].running
        /\ rec[status[n]].retries = 0
        /\ ~ArmedTimers(n)

\* the only process ever spawned for name ended with status 0 and its exit-monitor has
\* recorded that
NormalExitSeen(n) ==
  /\ status[n] # NoPid
  /\ proc[status[n]].st = "exit0"
  /\ mon[status[n]].pc = "done"
  /\ ~mon[status[n]].err
  /\ \A p \in Pids : proc[p].name = n <=> p = status[n]

\* C10: after a process ended with status 0 its record keeps retries = 0 and no
\* restart is scheduled for its name, then or later
C10_NoRestartAfterNormalExit ==
  \A n \in Names :
    NormalExitSeen(n) =>
      /\ rec[status[n]].retries = 0
      /\ restartTimers[n] # "pending"
      /\ strayRestart[n] = 0

\* the exit-monitor of the current process of name has recorded an abnormal exit and
\* retries is within DaemonMaxRetries
AbnormalExitSeen(n) ==
  /\ status[n] # NoPid
  /\ mon[status[n]].pc = "done"
  /\ mon[status[n]].err
  /\ rec[status[n]].retries <= cfgMaxRetries

\* a process was spawned for name by a restart-timer callback
Relaunched(n) == \E p \in Pids : proc[p].name = n /\ proc[p].auto

\* C11: after an abnormal exit of name with retries within DaemonMaxRetries, unless a
\* shutdown or an explicit restart comes in between, the restart timer fires and name
\* is launched again
C11_AbnormalExitLeadsToRelaunch ==
  \A n \in Names :
    AbnormalExitSeen(n) ~> (Relaunched(n) \/ cancelled \/ n \in restarted)

\* the number of restart timers armed for name
RestartTimersOf(n) == (IF restartTimers[n] = "pending" THEN 1 ELSE 0) + strayRestart[n]

\* C12: while the retries counter of name has reached DaemonMaxRetries and no explicit
\* RestartProcess(name) has been called, no step arms a restart timer for name
C12_NoRestartAtMaxRetries ==
  [][\A n \in Names :
       (/\ status'[n] # NoPid
        /\ rec'[status'[n]].retries >= cfgMaxRetries
        /\ n \notin restarted')
         => RestartTimersOf(n)' <= RestartTimersOf(n)]_vars

\* the processes spawned for name by restart-timer callbacks since the last
\* StartProcess(name) called from outside
AutoLaunches(n) ==
  {p \in Pids : /\ proc[p].name = n
                /\ proc[p].auto
                /\ \A q \in Pids : (proc[q].name = n /\ ~proc[q].auto) => q < p}

\* C13: whatever the launched command does, and so when it exits abnormally every
\* time, the automatic relaunches of name since its StartProcess number at most
\* DaemonMaxRetries (no RestartProcess having reset the counter)
C13_RelaunchesBounded ==
  \A n \in Names : n \notin restarted => Cardinality(AutoLaunches(n)) <= cfgMaxRetries

\* min(a, b)
Min(a, b) == IF a <= b THEN a ELSE b

\* C14: the delay of every restart timer that is armed lies between the base delay
\* and 60 s, and from retries = 1 on equals min(base * 2^(retries-1), 60 s) for the
\* retries of the record scheduleRestart has read
C14_RestartDelay ==
  last.op = "scheduleRestart" =>
    /\ DaemonRestartDelay <= last.delay
    /\ last.delay <= RestartDelayCap
    /\ rec[last.pid].retries >= 1 =>
         last.delay = Min(DaemonRestartDelay * 2 ^ (rec[last.pid].retries - 1), RestartDelayCap)

\* the number of health-check timers armed for name
CheckTimersOf(n) == (IF checkTimers[n] = "pending" THEN 1 ELSE 0) + strayCheck[n]

\* C15: in every reachable state at most one restart timer is armed per name
C15_OneRestartTimerPerName == \A n \in Names : RestartTimersOf(n) <= 1

\* C16: in every reachable state at most one health-check timer is armed per name
C16_OneCheckTimerPerName == \A n \in Names : CheckTimersOf(n) <= 1

\* a name at rest: its record is not running, no timer of it is armed and no process
\* of it is tracked alive
Settled(n) ==
  /\ status[n] # NoPid => ~rec[status[n]].running
  /\ ~ArmedTimers(n)
  /\ ~Alive(processes[n])

\* a step of a goroutine or timer callback of the manager, not a call from outside
InternalStep == last'.op \in {"step", "scheduleRestart"}

\* C17: when Cleanup returns every record is not running, and once it has returned no
\* step of an exit monitor, health check or timer callback takes a name out of rest
\* (record not running, no health-check or restart timer armed, no tracked process
\* left alive)
C17_CleanupIsFinal ==
  [][/\ last'.op = "Cleanup" =>
          \A n \in Names : status'[n] # NoPid => ~rec'[status'[n]].running
     /\ (cleanupPc = "done" /\ InternalStep) =>
          \A n \in Names : Settled(n) => Settled(n)']_vars

\* C18: when Cleanup has returned every exit-monitor goroutine has finished: none is
\* still waiting for its process or about to touch a record
C18_MonitorsDoneAfterCleanup ==
  cleanupPc = "done" => \A p \in Pids : mon[p].pc \in {"none", "done"}

\* C19: after Cleanup cancelled the context no process is started by the manager
\* itself: every process spawned from then on comes from a call from outside, never
\* from a restart-timer callback
C19_NoRelaunchAfterShutdown ==
  [][cancelled =>
       \A p \in Pids : (proc[p].st = "none" /\ proc'[p].st # "none") => ~proc'[p].auto]_vars

\* what a call of SetTunnelInfo may leave changed besides the tags
TunnelCallKeeps ==
  UNCHANGED <<proc, processes, status, rec, muW, muR, mon, hc, checkTimers, restartTimers,
              strayCheck, strayRestart, cancelled, cleanupPc, hr, gs, hist,
              cfgMaxRetries, nezhaOn, restarted>>

\* C20: a call of SetTunnelInfo changes nothing but the manager's tunnel type and domain
\* and the Type and Domain of the "tunnel" record (no other record, no running, retries
\* or pid), and a second call with the same arguments leaves the state of the first
C20_SetTunnelInfoIdempotent ==
  [][last'.op = "SetTunnelInfo" =>
       /\ TunnelCallKeeps
       /\ \A p \in Pids : p # status["tunnel"] => tags'[p] = tags[p]
       /\ status["tunnel"] # NoPid => tags'[status["tunnel"]] = tunnelInfo'
       /\ (last.op = "SetTunnelInfo" /\ tunnelInfo' = tunnelInfo) => tags' = tags]_vars

C20_Witness ==
  /\ last.op = "SetTunnelInfo"
  /\ status["tunnel"] # NoPid /\ status["xray"] # NoPid
  /\ tunnelInfo.domain # ""
  /\ tags[status["tunnel"]] = tunnelInfo
  /\ tags[status["xray"]] = NoInfo
  /\ rec[status["tunnel"]].running

\* the record of a started name is never removed from dm.status
RecordPersists == \A n \in Names : status[n] # NoPid => status'[n] # NoPid

\* C21: once a name has been started its status record stays in every later state, and
\* after Cleanup has returned it stays there with running = false: no step of the
\* manager's own goroutines and timers removes it or marks it running again
C21_RecordPersists ==
  [][/\ RecordPersists
     /\ (cleanupPc = "done" /\ InternalStep) =>
          \A n \in Names : (status[n] # NoPid /\ ~rec[status[n]].running)
                             => ~rec'[status'[n]].running]_vars

\* C22: when the RestartProcess call the restart handler made for a requested name
\* returned an error, the handler does not answer with a success response
C22_RestartErrorReported ==
  (last.op = "RestartProcess" /\ last.res # "ok") => last.resp # "success"

\* the text the claim gives for d seconds
Rendered(d) ==
  LET h == d \div 3600
      m == (d \div 60) % 60
      s == d % 60
  IN IF d < 60 THEN << <<s, "s">> >>
     ELSE IF d < 3600 THEN << <<m, "m">>, <<s, "s">> >>
     ELSE << <<h, "h">>, <<m, "m">>, <<s, "s">> >>

\* C23: formatDuration(d) of a whole number of seconds is "S秒" under one minute,
\* "M分钟S秒" under one hour and "H小时M分钟S秒" otherwise, with M = minutes mod 60
\* and S = seconds mod 60
C23_FormatDuration == call.fn = "formatDuration" => call.out = Rendered(call.arg)

\* the length of the token of TestAnalyzeTunnelType
TestTokenLen == 52

\* C24: analyzeTunnelType gives the temporary type for an empty ArgoAuth, the fixed type
\* for a value that contains "TunnelSecret", and the token type for a value of letters,
\* digits and '=' only that is as long as the 52-character token of the test
C24_AnalyzeTunnelType ==
  call.fn = "analyzeTunnelType" =>
    /\ call.arg.len = 0 => call.out = "temporary"
    /\ call.arg.secret => call.out = "fixed"
    /\ (call.arg.tokenChars /\ ~call.arg.secret /\ call.arg.len = TestTokenLen)
         => call.out = "token"

\* the exit-monitor of pid p handles the end of a process the manager killed
MonitorHandlesKill(p) ==
  /\ mon[p].pc = "exited" /\ mon'[p].pc # "exited"
  /\ proc[mon[p].cmd].st = "killed"

\* C25: the end of a process that the manager itself killed (RestartProcess, Cleanup,
\* or StartProcess replacing it) is not an abnormal exit: the exit-monitor that handles
\* it increments no retries and does not go on to schedule a restart
C25_KillIsNotAbnormalExit ==
  [][\A p \in Pids :
       MonitorHandlesKill(p) =>
         /\ \A q \in Pids : rec'[q].retries = rec[q].retries
         /\ mon'[p].pc = "done"]_vars

\* a store to or a delete from a timer map (the expiry of a timer is not one)
TimerMapWritten(t, u) ==
  \E n \in Names : u[n] # t[n] /\ ~(t[n] = "pending" /\ u[n] = "spent")

\* a step writes a status record, the process map, the status map or a timer map
WritesShared ==
  \/ rec' # rec
  \/ processes' # processes
  \/ status' # status
  \/ TimerMapWritten(checkTimers, checkTimers')
  \/ TimerMapWritten(restartTimers, restartTimers')

\* C26: a status record, the process map and the timer maps are written only by a
\* goroutine that holds the manager's lock exclusively: no step writes one of them
\* while another goroutine holds the lock for reading or for writing
C26_AccessUnderLock == [][WritesShared => (muW = NoPid /\ ~muR)]_vars

\* the retries counter of a name: that of its current record
RetriesOf(n) == IF status[n] = NoPid THEN 0 ELSE rec[status[n]].retries

\* a health check has just confirmed its process alive
HealthConfirmed == \E i \in HCs : hc[i].pc = "markOk" /\ hc'[i].pc # "markOk"

\* C27: the retries counter of a name never decreases except by a reset to 0, and a
\* reset comes from a call from outside (RestartProcess, or StartProcess) or from a
\* health check that confirmed the process alive, never from an automatic relaunch
C27_RetriesMonotonic ==
  [][\A n \in Names :
       RetriesOf(n)' < RetriesOf(n) =>
         /\ RetriesOf(n)' = 0
         /\ last'.op \in {"RestartProcess", "StartProcess"} \/ HealthConfirmed]_vars

\* health check i records a probe that failed, for a name that has a record
HealthFailed(i) == hc[i].pc = "markFail" /\ hc'[i].pc # "markFail" /\ hc[i].st # NoPid

\* C28: a health check that cannot confirm its process alive marks the record not
\* running, adds one to retries, and goes on to schedule a restart exactly when
\* retries is still within DaemonMaxRetries, as the exit-monitor does
C28_FailedCheckCountsRetry ==
  [][\A i \in HCs :
       HealthFailed(i) =>
         /\ ~rec'[hc[i].st].running
         /\ rec'[hc[i].st].retries = rec[hc[i].st].retries + 1
         /\ hc'[i].pc = "schedRead" <=> rec'[hc[i].st].retries <= cfgMaxRetries]_vars

\* C29: a health check that confirmed its process alive changes nothing in a record
\* (running and retries stay as they were) and goes on to re-arm the health-check timer
C29_HealthyCheckChangesNothing ==
  [][\A i \in HCs :
       (hc[i].pc = "markOk" /\ hc'[i].pc # "markOk") =>
         /\ rec' = rec
         /\ hc'[i].pc = "rearmStop"]_vars

\* StartProcess(n), called from outside or by a restart-timer callback, has just failed
\* to create the child
LaunchFailed(n) ==
  last'.op \in {"StartProcess", "Relaunch"} /\ last'.name = n /\ last'.res = "error"

\* C30: a launch failure is handled like an abnormal exit: the retries of the name's
\* record are incremented, and a restart timer is armed while retries is within
\* DaemonMaxRetries
C30_LaunchFailureRetried ==
  [][\A n \in Names :
       LaunchFailed(n) =>
         /\ status[n] # NoPid => RetriesOf(n)' = RetriesOf(n) + 1
         /\ RetriesOf(n) + 1 <= cfgMaxRetries => RestartTimersOf(n)' > RestartTimersOf(n)]_vars

\* a record with running = true has a process handle tracked under its name in the
\* process map, and that handle is the process whose pid the record shows
RunningHasHandle ==
  \A n \in Names :
    (status[n] # NoPid /\ rec[status[n]].running) => processes[n] = status[n]

\* C31: in every state in which Cleanup is not half-way through its loops, before it
\* and after it has returned, a record with running = true has its process tracked in
\* the process map under the same name and pid
C31_RunningHasHandle == cleanupPc \in {"idle", "done"} => RunningHasHandle

\* the restart handler has just rejected the name it was given
HandlerRejected == last'.op = "handleRestart"

\* the restart handler has just made one of its calls of RestartProcess
HandlerCalled == last'.op = "RestartProcess"

\* C32: the restart handler rejects a name other than nezha, xray, tunnel and all with a
\* bad request and changes nothing in the manager; a request calls RestartProcess on
\* one valid name and answers, or (for "all") on nezha, xray and tunnel in turn, going
\* on to the next name whatever the call returned and answering after the last one
C32_RestartHandlerNames ==
  [][/\ HandlerRejected =>
          /\ last'.resp = "400" /\ last'.name \notin {"nezha", "xray", "tunnel", "all"}
          /\ UNCHANGED <<proc, processes, status, rec, muW, muR, mon, hc, checkTimers,
                         restartTimers, strayCheck, strayRestart, cancelled, cleanupPc,
                         hr, gs, hist, cfgMaxRetries, nezhaOn, restarted, tunnelInfo, tags>>
     /\ (HandlerCalled /\ hr.pc = "idle") =>
          \/ hr'.pc = "idle" /\ last'.resp = "success"
                             /\ last'.name \in {"nezha", "xray", "tunnel"}
          \/ hr'.pc = "run" /\ last'.resp = ""
                            /\ last'.name = "nezha" /\ hr'.todo = <<"xray", "tunnel">>
     /\ (HandlerCalled /\ hr.pc = "run") =>
          /\ last'.name = Head(hr.todo)
          /\ IF Tail(hr.todo) = <<>>
             THEN hr'.pc = "idle" /\ last'.resp = "success"
             ELSE hr'.pc = "run" /\ hr'.todo = Tail(hr.todo) /\ last'.resp = ""]_vars

\* a restart of "all" goes on with xray and tunnel after RestartProcess("nezha") failed
C32_Witness ==
  /\ last.op = "RestartProcess" /\ last.name = "nezha" /\ last.res = "notfound"
  /\ hr.pc = "run" /\ hr.todo = <<"xray", "tunnel">>
  /\ status["xray"] # NoPid

\* the exit-monitor of pid p, whose own process has ended, acts while the record of
\* its name belongs to a later process that is still alive
ReplacedMonitorActs(p) ==
  /\ mon[p].pc = "exited" /\ mon'[p].pc # "exited"
  /\ mon[p].cmd = p
  /\ status[proc[p].name] # p
  /\ Alive(status[proc[p].name])

\* C33: the exit-monitor of a replaced process leaves the record of the replacement
\* alone: it does not clear running, count a retry or go on to schedule a restart for
\* the new process, which is still alive
C33_OldMonitorSparesNewRecord ==
  [][\A p \in Pids :
       ReplacedMonitorActs(p) =>
         /\ rec'[status[proc[p].name]] = rec[status[proc[p].name]]
         /\ mon'[p].pc = "done"]_vars

\* C34: the exit-monitor spawned for a process waits for that process and no other:
\* no monitor takes the process of a later StartProcess call from the process map, so
\* that no process is waited for twice and none is left without its monitor
C34_MonitorWaitsOwnProcess ==
  \A p \in Pids : mon[p].cmd \in {NoPid, p}

\* a call of StartProcess from outside has just failed to start the new command
StartFailed == last'.op = "StartProcess" /\ last'.res = "error"

\* C35: a StartProcess that fails to launch the new command leaves the manager as it
\* was: processes, process map, status records and timers are unchanged, so a process
\* that was running under the name still runs
C35_FailedStartChangesNothing ==
  [][StartFailed =>
       UNCHANGED <<proc, processes, status, rec, checkTimers, restartTimers,
                   strayCheck, strayRestart>>]_vars

\* C36: whenever a "tunnel" record exists, its type and domain are the manager's
\* current tunnel type and domain, after any sequence of SetTunnelInfo and
\* StartProcess("tunnel") calls
C36_TunnelTagsAgree ==
  status["tunnel"] # NoPid => tags[status["tunnel"]] = tunnelInfo

\* C37: every name with an entry in the process map has a status record, and the pid
\* of that record is the pid of the process in the entry
C37_MapEntryHasRecord ==
  \A n \in Names : processes[n] # NoPid => status[n] = processes[n]

\* xray is tracked in the process map, with its record, while its exit-monitor and a
\* health check have run
C37_Witness ==
  /\ processes["xray"] # NoPid /\ status["xray"] = processes["xray"]
  /\ \E p \in Pids : proc[p].name = "xray" /\ p < processes["xray"]
  /\ \E p \in Pids : mon[p].pc \notin {"none", "start"}

\* C38: domain extraction for a temporary tunnel terminates: startMainProcess gets
\* past extractDomains and restartCloudflared and goes on to uploadNodes, also when
\* the boot log never contains a trycloudflare.com domain
C38_DomainExtractionTerminates == <>(call.fn = "uploadNodes")


====
